---------------------------- MODULE Spec2Model ----------------------------
(***************************************************************************)
(* Model of src/key.rs: the legend ("key") Properties of a plot, its       *)
(* mutators (hide, show and the Set<T> implementations) and script(), the  *)
(* operation that renders the properties as one gnuplot "set key" line.    *)
(*                                                                         *)
(* Strings are sequences of one-character strings, so that concatenation,  *)
(* prefixes and the newline characters of an output are all observable.    *)
(***************************************************************************)
EXTENDS Naturals, Sequences, FiniteSets

VARIABLES
    self,      \* the Properties object: a record of its seven fields
    out,       \* what the latest script() call returned; NoOut once a mutator ran
    calls,     \* the mutator calls recorded so far, oldest first
    tracked,   \* TRUE while calls is the whole history since construction
    lastVis    \* the most recent of hide/show that was called, "none" at first

vars == <<self, out, calls, tracked, lastVis>>

-----------------------------------------------------------------------------
(* Bounds and input sets *)

\* The length of the recorded call history; later calls keep only the last.
MaxCalls == 3

\* Option<T>
None == [some |-> FALSE]
Some(x) == [some |-> TRUE, val |-> x]

\* The enums of key.rs
Boxed == {"No", "Yes"}
Horizontal == {"Center", "Left", "Right"}
Justification == {"Left", "Right"}
Order == {"SampleText", "TextSample"}
Stacked == {"Horizontally", "Vertically"}
Vertical == {"Bottom", "Center", "Top"}
Position == [kind : {"Inside", "Outside"}, v : Vertical, h : Horizontal]

Inside(v, h) == [kind |-> "Inside", v |-> v, h |-> h]
Outside(v, h) == [kind |-> "Outside", v |-> v, h |-> h]

\* Title texts handed to the title setter: a plain word, a text with a
\* single quote in it and a text with a newline in it.
Legend == <<"L", "e", "g", "e", "n", "d">>
Quoted == <<"a", "'", "b">>
TwoLines == <<"a", "\n", "b">>
Titles == {Legend, Quoted, TwoLines}

\* The positions the mutator sequences of Spec pass to the position setter.
CalledPositions ==
    { Inside("Top", "Right"), Outside("Bottom", "Left"), Inside("Center", "Center") }

-----------------------------------------------------------------------------
(* Display: the tokens of the enum values.  The Display implementations live *)
(* outside key.rs; the tokens are those of the specification (Top is "top",  *)
(* Inside(Top, Right) stacked Vertically is "inside top right vertically"),  *)
(* and the lower-cased variant name where the specification names none.      *)

Vertical_display(v) ==
    CASE v = "Bottom" -> <<"b", "o", "t", "t", "o", "m">>
      [] v = "Center" -> <<"c", "e", "n", "t", "e", "r">>
      [] v = "Top" -> <<"t", "o", "p">>

Horizontal_display(h) ==
    CASE h = "Center" -> <<"c", "e", "n", "t", "e", "r">>
      [] h = "Left" -> <<"l", "e", "f", "t">>
      [] h = "Right" -> <<"r", "i", "g", "h", "t">>

Stacked_display(s) ==
    CASE s = "Horizontally" -> <<"h", "o", "r", "i", "z", "o", "n", "t", "a", "l", "l", "y">>
      [] s = "Vertically" -> <<"v", "e", "r", "t", "i", "c", "a", "l", "l", "y">>

Justification_display(j) ==
    CASE j = "Left" -> <<"l", "e", "f", "t">>
      [] j = "Right" -> <<"r", "i", "g", "h", "t">>

Order_display(o) ==
    CASE o = "SampleText" -> <<"s", "a", "m", "p", "l", "e", "t", "e", "x", "t">>
      [] o = "TextSample" -> <<"t", "e", "x", "t", "s", "a", "m", "p", "l", "e">>

-----------------------------------------------------------------------------
(* Properties, its constructor and its mutators *)

Fields == {"boxed", "hidden", "justification", "order", "position", "stacked", "title"}

default ==
    [ boxed |-> FALSE,
      hidden |-> FALSE,
      justification |-> None,
      order |-> None,
      position |-> None,
      stacked |-> None,
      title |-> None ]

\* Faulty hide: the title is dropped with the key.
hide_clears(p) == [p EXCEPT !.hidden = TRUE, !.title = None]

\* self.hidden = true
hide(p) == [p EXCEPT !.hidden = TRUE]

\* Faulty show: the flag is left as it is.
show_noop(p) == p

\* self.hidden = false
show(p) == [p EXCEPT !.hidden = FALSE]

\* Faulty Set<Boxed>: Boxed::No is ignored.
set_Boxed_only_yes(p, boxed) == IF boxed = "Yes" THEN [p EXCEPT !.boxed = TRUE] ELSE p

\* match boxed { No => self.boxed = false, Yes => self.boxed = true }
set_Boxed(p, boxed) ==
    CASE boxed = "No" -> [p EXCEPT !.boxed = FALSE]
      [] boxed = "Yes" -> [p EXCEPT !.boxed = TRUE]

\* Faulty Set<Justification>: the documented default, Right, is stored as unset.
set_Justification_default_unset(p, justification) ==
    [p EXCEPT !.justification = IF justification = "Right" THEN None ELSE Some(justification)]

set_Justification(p, justification) == [p EXCEPT !.justification = Some(justification)]

set_Order(p, order) == [p EXCEPT !.order = Some(order)]

\* Faulty Set<Position>: the stacking is reset with the position.
set_Position_resets(p, position) == [p EXCEPT !.position = Some(position), !.stacked = None]

set_Position(p, position) == [p EXCEPT !.position = Some(position)]

set_Stacked(p, stacked) == [p EXCEPT !.stacked = Some(stacked)]

\* A MaybeOwned, borrowed or owned, compares and displays as the text it holds.
into_maybe_owned(s) == s

set_Title(p, title) == [p EXCEPT !.title = Some(into_maybe_owned(title))]

-----------------------------------------------------------------------------
(* script() *)

SetKeyOff == <<"s", "e", "t", " ", "k", "e", "y", " ", "o", "f", "f", "\n">>
SetKeyOn == <<"s", "e", "t", " ", "k", "e", "y", " ", "o", "n", " ">>

\* format!("inside {} {} ", v.display(), h.display())
format_inside(v, h) ==
    <<"i", "n", "s", "i", "d", "e", " ">> \o Vertical_display(v) \o <<" ">>
        \o Horizontal_display(h) \o <<" ">>

\* format!("outside {} {} ", v.display(), h.display())
format_outside(v, h) ==
    <<"o", "u", "t", "s", "i", "d", "e", " ">> \o Vertical_display(v) \o <<" ">>
        \o Horizontal_display(h) \o <<" ">>

\* format!("title '{}' ", title)
format_title(title) ==
    <<"t", "i", "t", "l", "e", " ", "'">> \o title \o <<"'", " ">>

\* Faulty script: the hidden branch does not return, later tokens follow it.
script_no_return(p) ==
    LET s0 == IF p.hidden THEN SetKeyOff ELSE SetKeyOn
        s1 == IF p.title.some THEN s0 \o format_title(p.title.val) ELSE s0
        s2 == IF p.boxed THEN s1 \o <<"b", "o", "x", " ">> ELSE s1
    IN  s2 \o <<"\n">>

\* Faulty script: justification is emitted before stacking.
script_swapped(p) ==
    IF p.hidden THEN SetKeyOff
    ELSE
      LET s0 == SetKeyOn
          s1 == IF ~p.position.some THEN s0
                ELSE IF p.position.val.kind = "Inside"
                     THEN s0 \o format_inside(p.position.val.v, p.position.val.h)
                     ELSE s0 \o format_outside(p.position.val.v, p.position.val.h)
          s2 == IF p.justification.some
                THEN s1 \o Justification_display(p.justification.val) \o <<" ">> ELSE s1
          s3 == IF p.stacked.some
                THEN s2 \o Stacked_display(p.stacked.val) \o <<" ">> ELSE s2
          s4 == IF p.order.some THEN s3 \o Order_display(p.order.val) \o <<" ">> ELSE s3
          s5 == IF p.title.some THEN s4 \o format_title(p.title.val) ELSE s4
          s6 == IF p.boxed THEN s5 \o <<"b", "o", "x", " ">> ELSE s5
      IN  s6 \o <<"\n">>

\* Faulty script: the space after the order token is pushed outside the if-let.
script_stray_space(p) ==
    IF p.hidden THEN SetKeyOff
    ELSE
      LET s0 == SetKeyOn
          s1 == IF ~p.position.some THEN s0
                ELSE IF p.position.val.kind = "Inside"
                     THEN s0 \o format_inside(p.position.val.v, p.position.val.h)
                     ELSE s0 \o format_outside(p.position.val.v, p.position.val.h)
          s2 == IF p.stacked.some
                THEN s1 \o Stacked_display(p.stacked.val) \o <<" ">> ELSE s1
          s3 == IF p.justification.some
                THEN s2 \o Justification_display(p.justification.val) \o <<" ">> ELSE s2
          s4 == (IF p.order.some THEN s3 \o Order_display(p.order.val) ELSE s3) \o <<" ">>
          s5 == IF p.title.some THEN s4 \o format_title(p.title.val) ELSE s4
          s6 == IF p.boxed THEN s5 \o <<"b", "o", "x", " ">> ELSE s5
      IN  s6 \o <<"\n">>

\* Properties::script: the early return for a hidden key, then the tokens
\* pushed in source order, then the newline.
script(p) ==
    IF p.hidden THEN SetKeyOff
    ELSE
      LET s0 == SetKeyOn
          s1 == IF ~p.position.some THEN s0
                ELSE IF p.position.val.kind = "Inside"
                     THEN s0 \o format_inside(p.position.val.v, p.position.val.h)
                     ELSE s0 \o format_outside(p.position.val.v, p.position.val.h)
          s2 == IF p.stacked.some
                THEN s1 \o Stacked_display(p.stacked.val) \o <<" ">> ELSE s1
          s3 == IF p.justification.some
                THEN s2 \o Justification_display(p.justification.val) \o <<" ">> ELSE s2
          s4 == IF p.order.some THEN s3 \o Order_display(p.order.val) \o <<" ">> ELSE s3
          s5 == IF p.title.some THEN s4 \o format_title(p.title.val) ELSE s4
          s6 == IF p.boxed THEN s5 \o <<"b", "o", "x", " ">> ELSE s5
      IN  s6 \o <<"\n">>

-----------------------------------------------------------------------------
(* The calls a caller can make, and the state machine *)

NoOut == <<>>

HideCall == [op |-> "hide", arg |-> "-"]
ShowCall == [op |-> "show", arg |-> "-"]
SetCall(field, value) == [op |-> field, arg |-> value]

MutatorCalls ==
    {HideCall, ShowCall}
        \cup {SetCall("boxed", b) : b \in Boxed}
        \cup {SetCall("justification", j) : j \in Justification}
        \cup {SetCall("order", o) : o \in Order}
        \cup {SetCall("position", q) : q \in CalledPositions}
        \cup {SetCall("stacked", s) : s \in Stacked}
        \cup {SetCall("title", t) : t \in Titles}

\* The field a call writes.
FieldOf(c) == IF c.op \in {"hide", "show"} THEN "hidden" ELSE c.op

\* The dispatch of a call to the method, or the Set<T> implementation, it names.
Apply(p, c) ==
    CASE c.op = "hide" -> hide(p)
      [] c.op = "show" -> show(p)
      [] c.op = "boxed" -> set_Boxed(p, c.arg)
      [] c.op = "justification" -> set_Justification(p, c.arg)
      [] c.op = "order" -> set_Order(p, c.arg)
      [] c.op = "position" -> set_Position(p, c.arg)
      [] c.op = "stacked" -> set_Stacked(p, c.arg)
      [] c.op = "title" -> set_Title(p, c.arg)

Init ==
    /\ self = default
    /\ out = NoOut
    /\ calls = <<>>
    /\ tracked = TRUE
    /\ lastVis = "none"

\* The caller's record of a mutator call: the history grows up to MaxCalls
\* calls and from then on holds the latest call only; a result obtained from
\* script() before the call is stale.
Record(c) ==
    /\ out' = NoOut
    /\ IF tracked /\ Len(calls) < MaxCalls
       THEN calls' = Append(calls, c) /\ tracked' = TRUE
       ELSE calls' = <<c>> /\ tracked' = FALSE
    /\ lastVis' = IF c.op \in {"hide", "show"} THEN c.op ELSE lastVis

Hide ==
    /\ self' = hide(self)
    /\ Record(HideCall)

Show ==
    /\ self' = show(self)
    /\ Record(ShowCall)

SetBoxed ==
    \E b \in Boxed :
        /\ self' = set_Boxed(self, b)
        /\ Record(SetCall("boxed", b))

SetJustification ==
    \E j \in Justification :
        /\ self' = set_Justification(self, j)
        /\ Record(SetCall("justification", j))

SetOrder ==
    \E o \in Order :
        /\ self' = set_Order(self, o)
        /\ Record(SetCall("order", o))

SetPosition ==
    \E q \in CalledPositions :
        /\ self' = set_Position(self, q)
        /\ Record(SetCall("position", q))

SetStacked ==
    \E s \in Stacked :
        /\ self' = set_Stacked(self, s)
        /\ Record(SetCall("stacked", s))

SetTitle ==
    \E t \in Titles :
        /\ self' = set_Title(self, t)
        /\ Record(SetCall("title", t))

\* Faulty script call: the title is taken out of the object.
Script_takes_title ==
    /\ out' = script(self)
    /\ self' = [self EXCEPT !.title = None]
    /\ UNCHANGED <<calls, tracked, lastVis>>

\* script(&self): the fields are read, the line is returned.
Script ==
    /\ out' = script(self)
    /\ UNCHANGED <<self, calls, tracked, lastVis>>

Next ==
    \/ Hide
    \/ Show
    \/ SetBoxed
    \/ SetJustification
    \/ SetOrder
    \/ SetPosition
    \/ SetStacked
    \/ SetTitle
    \/ Script

Spec == Init /\ [][Next]_vars

-----------------------------------------------------------------------------
(* script() as a function of every field combination *)

Opt(S) == {None} \cup {Some(x) : x \in S}

AllProperties ==
    [ boxed : BOOLEAN,
      hidden : BOOLEAN,
      justification : Opt(Justification),
      order : Opt(Order),
      position : Opt(Position),
      stacked : Opt(Stacked),
      title : Opt(Titles) ]

\* Any Properties value, built by mutator calls that were not recorded.
InitScript ==
    /\ self \in AllProperties
    /\ out = NoOut
    /\ calls = <<>>
    /\ tracked = FALSE
    /\ lastVis = IF self.hidden THEN "hide" ELSE "show"

NextScript == Script

SpecScript == InitScript /\ [][NextScript]_vars

-----------------------------------------------------------------------------
(* The lines and tokens the claims speak of *)

OffLine == <<"s", "e", "t", " ", "k", "e", "y", " ", "o", "f", "f", "\n">>
OnPrefix == <<"s", "e", "t", " ", "k", "e", "y", " ", "o", "n", " ">>
DefaultLine == OnPrefix \o <<"\n">>
BoxToken == <<"b", "o", "x", " ">>

StartsWith(s, pre) == Len(s) >= Len(pre) /\ SubSeq(s, 1, Len(pre)) = pre

NewlineCount(s) == Cardinality({i \in 1..Len(s) : s[i] = "\n"})

OptionalFields == {"position", "stacked", "justification", "order", "title"}

\* The token of a value of an optional field.
FieldToken(f, x) ==
    CASE f = "position" ->
            (IF x.kind = "Inside" THEN <<"i", "n", "s", "i", "d", "e">>
                                  ELSE <<"o", "u", "t", "s", "i", "d", "e">>)
                \o <<" ">> \o Vertical_display(x.v) \o <<" ">>
                \o Horizontal_display(x.h) \o <<" ">>
      [] f = "stacked" -> Stacked_display(x) \o <<" ">>
      [] f = "justification" -> Justification_display(x) \o <<" ">>
      [] f = "order" -> Order_display(x) \o <<" ">>
      [] f = "title" -> <<"t", "i", "t", "l", "e", " ", "'">> \o x \o <<"'", " ">>

\* The token a Properties value emits for an optional field: nothing when unset.
TokenIn(p, f) == IF p[f].some THEN FieldToken(f, p[f].val) ELSE <<>>

\* The reference concatenation of a visible Properties value.
Reference(p) ==
    OnPrefix \o TokenIn(p, "position") \o TokenIn(p, "stacked")
        \o TokenIn(p, "justification") \o TokenIn(p, "order") \o TokenIn(p, "title")
        \o (IF p.boxed THEN BoxToken ELSE <<>>) \o <<"\n">>

-----------------------------------------------------------------------------
(* The claims *)

\* C1: whenever the key is hidden, script() returns exactly "set key off\n",
\* whatever the other six fields hold.
C1_HiddenAbsorbs ==
    self.hidden => /\ script(self) = OffLine
                   /\ out # NoOut => out = OffLine

C1_Witness ==
    /\ self.hidden /\ out = OffLine
    /\ self.boxed /\ self.title.some /\ self.position.some
    /\ self.stacked.some /\ self.justification.some /\ self.order.some

\* C2: for a visible key, script() returns "set key on " followed by the tokens
\* of the set fields in the order position, stacking, justification, order,
\* title, box, and a newline; the defaults and the two scenarios give their
\* literal lines.
C2_ExactOutput ==
    (out # NoOut /\ ~self.hidden) =>
        /\ out = Reference(self)
        /\ StartsWith(out, OnPrefix)
        /\ self = default => out = <<"s", "e", "t", " ", "k", "e", "y", " ", "o", "n", " ", "\n">>
        /\ self = [default EXCEPT !.boxed = TRUE, !.title = Some(Legend)] =>
              out = <<"s", "e", "t", " ", "k", "e", "y", " ", "o", "n", " ",
                      "t", "i", "t", "l", "e", " ", "'", "L", "e", "g", "e", "n", "d", "'", " ",
                      "b", "o", "x", " ", "\n">>
        /\ self = [default EXCEPT !.position = Some(Inside("Top", "Right")),
                                  !.stacked = Some("Vertically")] =>
              out = <<"s", "e", "t", " ", "k", "e", "y", " ", "o", "n", " ",
                      "i", "n", "s", "i", "d", "e", " ", "t", "o", "p", " ",
                      "r", "i", "g", "h", "t", " ",
                      "v", "e", "r", "t", "i", "c", "a", "l", "l", "y", " ", "\n">>

C2_Witness ==
    /\ out # NoOut /\ ~self.hidden /\ self.boxed
    /\ \A f \in OptionalFields : self[f].some
    /\ self.position.val = Outside("Bottom", "Center")

\* C5: script() returns the hidden line exactly when the last hide/show call
\* was hide(), and a line starting with "set key on " otherwise; hide() then
\* show() on a fresh object gives the default line.
C5_LastHideShowWins ==
    out # NoOut =>
        /\ (out = OffLine) <=> (lastVis = "hide")
        /\ lastVis # "hide" => StartsWith(out, OnPrefix)
        /\ (tracked /\ calls = <<HideCall, ShowCall>>) => out = DefaultLine

C5_Witness == out = DefaultLine /\ tracked /\ calls = <<HideCall, ShowCall>>

\* C6: the line script() returns holds exactly one newline, its last character.
C6_SingleLine ==
    out # NoOut => NewlineCount(out) = 1 /\ out[Len(out)] = "\n"

\* C7: for a visible key, unsetting one optional field removes exactly that
\* field's token from the line and leaves every other character in place.
C7_AbsentFieldSilent ==
    (out # NoOut /\ ~self.hidden) =>
        \A f \in OptionalFields :
            self[f].some =>
                LET without == script([self EXCEPT ![f] = None])
                    tok == FieldToken(f, self[f].val)
                IN  /\ Len(without) = Len(out) - Len(tok)
                    /\ \E i \in 0..Len(without) :
                          out = SubSeq(without, 1, i) \o tok
                                    \o SubSeq(without, i + 1, Len(without))

C7_Witness ==
    /\ out # NoOut /\ ~self.hidden
    /\ self.order.some /\ ~self.title.some /\ self.position.some /\ ~self.stacked.some

-----------------------------------------------------------------------------
(* Claims about sequences of calls *)

RECURSIVE Replay(_, _)
\* The object after the calls cs, in order, on the object p.
Replay(p, cs) == IF cs = <<>> THEN p ELSE Replay(Apply(p, Head(cs)), Tail(cs))

DistinctFields(cs) ==
    \A i, j \in 1..Len(cs) : i # j => FieldOf(cs[i]) # FieldOf(cs[j])

Perms(n) == {f \in [1..n -> 1..n] : \A i, j \in 1..n : i # j => f[i] # f[j]}

Permuted(cs, f) == [i \in 1..Len(cs) |-> cs[f[i]]]

\* The token the calls cs, on pairwise distinct fields, ask for in field f.
CallToken(cs, f) ==
    IF \E i \in 1..Len(cs) : cs[i].op = f
    THEN FieldToken(f, (CHOOSE c \in {cs[i] : i \in 1..Len(cs)} : c.op = f).arg)
    ELSE <<>>

\* C3: mutators of pairwise distinct fields, applied to the same object in any
\* order, give the same line, and in the line of a visible key their tokens
\* stand in the order position, stacking, justification, order, title, box.
C3_OrderInvariance ==
    tracked =>
        \A k \in 0..Len(calls) :
            LET start == Replay(default, SubSeq(calls, 1, k))
                rest == SubSeq(calls, k + 1, Len(calls))
            IN  DistinctFields(rest) =>
                  /\ \A f \in Perms(Len(rest)) :
                        script(Replay(start, Permuted(rest, f))) = script(self)
                  /\ (k = 0 /\ ~self.hidden) =>
                        script(self) =
                            OnPrefix \o CallToken(rest, "position") \o CallToken(rest, "stacked")
                                \o CallToken(rest, "justification") \o CallToken(rest, "order")
                                \o CallToken(rest, "title")
                                \o (IF \E i \in 1..Len(rest) : rest[i] = SetCall("boxed", "Yes")
                                    THEN BoxToken ELSE <<>>)
                                \o <<"\n">>

C3_Witness ==
    /\ tracked /\ out # NoOut
    /\ calls = <<SetCall("order", "TextSample"), SetCall("justification", "Left"),
                 SetCall("stacked", "Vertically")>>

\* C4: script() changes no field, and called again with no mutator in between
\* it returns the same line.
C4_ScriptIsPure ==
    /\ [][out' # NoOut => (self' = self /\ (out # NoOut => out' = out))]_vars
    /\ [](out # NoOut => out = script(self))

C4_Witness == out # NoOut /\ calls # <<>> /\ self.title.some /\ ~self.hidden

\* C8: the last write to a field wins: set(a); set(b) gives the line of set(b)
\* alone from the same object, and boxed Yes then No leaves no "box " token.
C8_LastWriteWins ==
    (tracked /\ Len(calls) >= 2) =>
        LET n == Len(calls)
            start == Replay(default, SubSeq(calls, 1, n - 2))
        IN  FieldOf(calls[n - 1]) = FieldOf(calls[n]) =>
              /\ script(self) = script(Apply(start, calls[n]))
              /\ out # NoOut => out = script(Apply(start, calls[n]))
              /\ (calls[n - 1] = SetCall("boxed", "Yes") /\ calls[n] = SetCall("boxed", "No")) =>
                    LET line == script(self)
                    IN  ~(Len(line) >= 5 /\ SubSeq(line, Len(line) - 4, Len(line)) = BoxToken \o <<"\n">>)

C8_Witness ==
    /\ tracked /\ out # NoOut /\ Len(calls) = 3
    /\ calls[2] = SetCall("boxed", "Yes") /\ calls[3] = SetCall("boxed", "No")
    /\ calls[1].op = "title"

\* C9: a mutator changes no field but its own, and every mutator can be called
\* in every state.
C9_MutatorFrame ==
    /\ [][(out' = NoOut /\ calls' # <<>>) =>
              \A f \in Fields \ {FieldOf(calls'[Len(calls')])} : self'[f] = self[f]]_vars
    /\ [](/\ ENABLED Hide /\ ENABLED Show /\ ENABLED SetBoxed
          /\ ENABLED SetJustification /\ ENABLED SetOrder /\ ENABLED SetPosition
          /\ ENABLED SetStacked /\ ENABLED SetTitle)

C9_Witness ==
    /\ tracked /\ Len(calls) = 3 /\ ~self.hidden /\ self.title.some
    /\ calls[1] = HideCall /\ calls[2].op = "title" /\ calls[3] = ShowCall

\* C10: no mutator unsets an optional field, and a visible key with an
\* optional field set never gives the default line.
C10_OptionalFieldsStaySet ==
    /\ [][\A f \in OptionalFields : self[f].some => self'[f].some]_vars
    /\ []((~self.hidden /\ \E f \in OptionalFields : self[f].some) =>
              script(self) # DefaultLine)

C10_Witness ==
    /\ tracked /\ out # NoOut /\ ~self.boxed /\ self.justification.some
    /\ calls = <<SetCall("boxed", "Yes"), SetCall("justification", "Right"),
                 SetCall("boxed", "No")>>

=============================================================================
